---------------------------- MODULE Spec2Model ----------------------------
(***************************************************************************)
(* Model of src/main.py: the DistributionDB dependency graph builder, the  *)
(* DistributionEntry value object and the report written by __main__.      *)
(*                                                                         *)
(* Strings are sequences of one-character strings, so that the regular     *)
(* expressions, strip(), lower() and the string comparisons of the source  *)
(* are computed character by character.                                    *)
(***************************************************************************)
EXTENDS Integers, Sequences, FiniteSets, TLC

VARIABLES
    requiresOf,         \* environment: importlib.metadata.requires, by distribution
    importResult,       \* environment: outcome of __import__(name) + getattr(__version__)
    imports,            \* result of get_imports_from_root (sorted, no duplicates)
    heap,               \* every DistributionEntry object constructed so far, by identity
    known,              \* DistributionDB.__known_distributions (set of object identities)
    pending,            \* requirements_to_add of the pass in progress
    pc,                 \* position of the program
    raised,             \* the exception that left DistributionDB.__init__, if any
    impIdx,             \* index of import_package_name in imports (report loops)
    distIdx,            \* index of distribution_name in find_from_package(...)
    visited,            \* entries of find_by_name(...) already yielded in the loop
    distribution_list,  \* __main__: rendered strings written so far
    output_list,        \* __main__: entries collected for the sorted lines
    out,                \* lines written to the output file
    inspect_calls,      \* per object: times inspect_requirements was called on it
    finalize_calls,     \* per object: times finalize was called on it
    reqString,          \* one declared requirement string (parsing specification)
    parsed              \* what inspect_requirements does with reqString

vars == <<requiresOf, importResult, imports, heap, known, pending, pc, raised,
          impIdx, distIdx, visited, distribution_list, output_list, out,
          inspect_calls, finalize_calls, reqString, parsed>>

envVars == <<requiresOf, importResult, imports>>
graphVars == <<heap, pending, raised>>
callVars == <<inspect_calls, finalize_calls>>
reportVars == <<impIdx, distIdx, visited, distribution_list, output_list, out>>
parseVars == <<reqString, parsed>>

----------------------------------------------------------------------------
(* Bounds *)

\* longest declared requirement string enumerated by the parsing specification
MaxStrLen == 7
\* total number of requirement strings declared by the installed distributions
MaxReqs == 2

----------------------------------------------------------------------------
(* Characters and strings *)

\* Python's None, where a string is optional: a value that is no string
None == <<"None">>

\* code points of the characters used
Ord(c) ==
    CASE c = " " -> 32 [] c = "(" -> 40 [] c = ")" -> 41
      [] c = "1" -> 49 [] c = "2" -> 50 [] c = "3" -> 51
      [] c = ";" -> 59 [] c = "=" -> 61 [] c = ">" -> 62
      [] c = "A" -> 65 [] c = "a" -> 97 [] c = "b" -> 98 [] c = "c" -> 99
      [] c = "m" -> 109 [] c = "u" -> 117

\* str.lower(), per character
LowerChar(c) == IF c = "A" THEN "a" ELSE c

Lower(s) == [i \in 1..Len(s) |-> LowerChar(s[i])]

\* s < t for Python strings: lexicographic by code point
RECURSIVE StrLess(_, _)
StrLess(s, t) ==
    IF t = <<>> THEN FALSE
    ELSE IF s = <<>> THEN TRUE
    ELSE IF Ord(Head(s)) # Ord(Head(t)) THEN Ord(Head(s)) < Ord(Head(t))
    ELSE StrLess(Tail(s), Tail(t))

StrGreater(s, t) == StrLess(t, s)

\* all strings over alphabet of length at most n
StringsUpTo(alphabet, n) == UNION {[1..k -> alphabet] : k \in 0..n}

\* str.strip() (the only whitespace character modelled is the blank)
RECURSIVE LStrip(_)
LStrip(s) == IF s # <<>> /\ Head(s) = " " THEN LStrip(Tail(s)) ELSE s

RECURSIVE RStrip(_)
RStrip(s) ==
    IF s # <<>> /\ s[Len(s)] = " " THEN RStrip(SubSeq(s, 1, Len(s) - 1)) ELSE s

Strip(s) == RStrip(LStrip(s))

\* length of the longest prefix of s, from position p on, free of character c
RECURSIVE RunLen(_, _, _)
RunLen(s, p, c) ==
    IF p > Len(s) \/ s[p] = c THEN 0 ELSE 1 + RunLen(s, p + 1, c)

\* number of '(' characters s starts with
RECURSIVE LeadingParens(_)
LeadingParens(s) ==
    IF s # <<>> /\ Head(s) = "(" THEN 1 + LeadingParens(Tail(s)) ELSE 0

----------------------------------------------------------------------------
(* The two regular expressions and the body of inspect_requirements *)

\* _regex_requirement_split.match(s): ([^;]+) anchored at the start.
\* The match (group 0), or None when the string is empty or starts with ';'.
RegexRequirementSplit(s) ==
    LET n == RunLen(s, 1, ";")
    IN IF n = 0 THEN None ELSE SubSeq(s, 1, n)

\* _regex_version.search(t): ([^\(]+)(\(([^\)]+))*
\* search() tries every start position in turn; group 1 needs one character
\* that is not '('.  Group 1 is greedy, then the starred group is tried: '('
\* followed by at least one character that is not ')'; a second iteration
\* cannot start because the first one stops at ')' or at the end.
\* The result is <<group(1), group(3)>>, or None when nothing matches.
RegexVersion(t) ==
    LET p == LeadingParens(t) + 1
        n1 == RunLen(t, p, "(")
        q == p + n1
        n3 == IF q <= Len(t) THEN RunLen(t, q + 1, ")") ELSE 0
    IN IF p > Len(t) THEN None
       ELSE <<SubSeq(t, p, q - 1),
              IF n3 = 0 THEN None ELSE SubSeq(t, q + 1, q + n3)>>

\* One iteration of the loop of inspect_requirements on a declared string:
\*   kind "skip"  - the split regex did not match, nothing is yielded
\*   kind "yield" - the pair (name, version) is yielded
\*   kind "error" - result is None and result.group(1) raises AttributeError
ParseRequirement(s) ==
    LET concrete_requirement == RegexRequirementSplit(s)
    IN IF concrete_requirement = None
       THEN [kind |-> "skip", name |-> None, version |-> None]
       ELSE LET concrete_requirement_str == Strip(concrete_requirement)
                result == RegexVersion(concrete_requirement_str)
            IN IF result = None
               THEN [kind |-> "error", name |-> None, version |-> None]
               ELSE [kind |-> "yield", name |-> result[1], version |-> result[2]]

----------------------------------------------------------------------------
(* The environment: installed distributions, modules, declared requirements *)

\* the distributions installed in the environment, with their versions
InstalledNames == {<<"a">>, <<"b">>}

InstalledVersion(n) == IF n = <<"a">> THEN <<"1">> ELSE <<"2">>

\* importlib.metadata looks a distribution up by its normalised name
Installed(name) == Lower(name) \in InstalledNames

\* helper_packages_distributions(): module name -> owning distribution names
InstalledPackages ==
    (<<"a">> :> << <<"a">> >>) @@ (<<"m">> :> << <<"b">>, <<"a">> >>)

\* the order in which dict.values() yields the lists of owners
PackageOrder == << <<"a">>, <<"m">> >>

\* the module names a scanned source tree can import ("u" is owned by nobody)
ImportableNames == << <<"a">>, <<"m">>, <<"u">> >>

\* the only name that is no installed distribution but may be a module
ModuleName == <<"c">>

ImportResults == {"version", "ModuleNotFoundError", "AttributeError", "ImportError"}

\* the requirement strings the installed distributions may declare
ReqStrings ==
    { <<"a">>, <<"A">>, <<"b">>, <<"c">>,
      <<"a", "(", ">", ")", ";", "m">>,
      <<"(">>, <<";", "m">> }

\* the characters of the strings enumerated by the parsing specification
ParseAlphabet == {"a", " ", "(", ")", ";"}

----------------------------------------------------------------------------
(* DistributionEntry *)

\* __import__(name) followed by getattr(module, "__version__")
ImportOf(name) == IF name = ModuleName THEN importResult ELSE "ModuleNotFoundError"

\* the __version__ attribute of the module ModuleName, when it has one
ModuleVersion == <<"3">>

\* a constructor that marks the version detected whenever it is set
NewEntryDetectedWhenSet(provided_dist_name, version_str) ==
    LET base == [name |-> provided_dist_name,
                 version |-> <<>>,
                 version_provided |-> version_str # None,
                 version_detected |-> FALSE,
                 currently_processed |-> TRUE,
                 requirements |-> {}]
    IN IF version_str # None
       THEN [err |-> "none", entry |-> [base EXCEPT !.version = version_str,
                                                    !.version_detected = TRUE]]
       ELSE IF Installed(provided_dist_name)
       THEN [err |-> "none",
             entry |-> [base EXCEPT
                          !.version = InstalledVersion(Lower(provided_dist_name)),
                          !.version_detected = TRUE]]
       ELSE CASE ImportOf(provided_dist_name) = "version" ->
                   [err |-> "none",
                    entry |-> [base EXCEPT !.version = ModuleVersion,
                                           !.version_detected = TRUE]]
              [] ImportOf(provided_dist_name)
                     \in {"ModuleNotFoundError", "AttributeError"} ->
                   [err |-> "none", entry |-> base]
              [] OTHER ->
                   [err |-> ImportOf(provided_dist_name), entry |-> base]

\* DistributionEntry.__init__(provided_dist_name, version_str).
\* err is the exception that leaves the constructor, or "none".
NewEntry(provided_dist_name, version_str) ==
    LET base == [name |-> provided_dist_name,
                 version |-> <<>>,
                 version_provided |-> version_str # None,
                 version_detected |-> FALSE,
                 currently_processed |-> TRUE,
                 requirements |-> {}]
    IN IF version_str # None
       THEN [err |-> "none", entry |-> [base EXCEPT !.version = version_str]]
       ELSE IF Installed(provided_dist_name)
       THEN [err |-> "none",
             entry |-> [base EXCEPT
                          !.version = InstalledVersion(Lower(provided_dist_name)),
                          !.version_detected = TRUE]]
       ELSE \* PackageNotFoundError: fall back to the module of the same name
            CASE ImportOf(provided_dist_name) = "version" ->
                   [err |-> "none",
                    entry |-> [base EXCEPT !.version = ModuleVersion,
                                           !.version_detected = TRUE]]
              [] ImportOf(provided_dist_name)
                     \in {"ModuleNotFoundError", "AttributeError"} ->
                   [err |-> "none", entry |-> base]
              [] OTHER ->
                   \* any other exception of the import is not caught
                   [err |-> ImportOf(provided_dist_name), entry |-> base]

\* inspect_requirements without the handler of PackageNotFoundError: a
\* distribution that is not installed declares what distribution a declares
DeclaredRequirementsOfAny(e) ==
    requiresOf[IF Installed(e.name) THEN Lower(e.name) ELSE <<"a">>]

\* the declared requirement strings inspect_requirements iterates over:
\* requires(name), or nothing when PackageNotFoundError is raised
DeclaredRequirements(e) ==
    IF Installed(e.name) THEN requiresOf[Lower(e.name)] ELSE <<>>

\* DistributionEntry.__eq__
EntryEq(a, b) == Lower(a.name) = Lower(b.name) /\ a.version = b.version

\* DistributionEntry.__gt__
EntryGt(a, b) ==
    IF StrGreater(Lower(a.name), Lower(b.name)) THEN TRUE
    ELSE IF Lower(a.name) = Lower(b.name) THEN StrGreater(a.version, b.version)
    ELSE FALSE

\* DistributionEntry.__ge__, __lt__, __le__
EntryGe(a, b) == EntryEq(a, b) \/ EntryGt(a, b)
EntryLt(a, b) == ~EntryGe(a, b)
EntryLe(a, b) == ~EntryLt(a, b)

\* DistributionEntry.__hash__: hash((name, version)).  Two hashes are taken
\* to be equal exactly when the hashed tuples are equal.
EntryHash(e) == <<e.name, e.version>>

\* DistributionEntry.__str__
EntryStr(e) ==
    IF e.version_provided THEN e.name \o e.version
    ELSE IF e.version_detected THEN e.name \o <<" ", "=">> \o e.version
    ELSE e.name

----------------------------------------------------------------------------
(* Python sets of DistributionEntry objects: a set holds object identities  *)
(* (indices into the heap); membership compares the hash, then identity or  *)
(* __eq__.                                                                  *)

SetContains(h, S, o) ==
    \E e \in S : EntryHash(h[e]) = EntryHash(h[o]) /\ (e = o \/ EntryEq(h[e], h[o]))

\* a set.add that never compares the new element with the members
SetAddUncompared(h, S, o) == S \cup {o}

\* set.add
SetAdd(h, S, o) == IF SetContains(h, S, o) THEN S ELSE S \cup {o}

\* set.update that takes a node for present when one of its name is
SetUpdateByName(h, S, T) ==
    S \cup {o \in T : ~\E e \in S : Lower(h[e].name) = Lower(h[o].name)}

\* a set.update that keeps the new elements only
SetUpdateOnlyNew(h, S, T) == {o \in T : ~SetContains(h, S, o)}

\* set.update
SetUpdate(h, S, T) == S \cup {o \in T : ~SetContains(h, S, o)}

----------------------------------------------------------------------------
(* DistributionDB *)

\* an exception, with the function it leaves; NoError when nothing is raised
Raise(exception, from) == [exception |-> exception, from |-> from]

NoError == Raise("none", "none")

\* no object: the None returned by find
NoEntry == 0

\* DistributionDB.find: the first node whose hash is hash((name, version))
Find(h, K, provided_distribution_name, provided_version) ==
    LET hits == {d \in K :
                   EntryHash(h[d]) = <<provided_distribution_name, provided_version>>}
    IN IF hits = {} THEN NoEntry ELSE CHOOSE d \in hits : TRUE

\* a find_by_name that compares the lowercased names
FindByNameIgnoringCase(h, K, provided_distribution_name) ==
    {d \in K : Lower(h[d].name) = Lower(provided_distribution_name)}

\* DistributionDB.find_by_name
FindByName(h, K, provided_distribution_name) ==
    {d \in K : h[d].name = provided_distribution_name}

\* DistributionDB.package_known
PackageKnown(package_name) == package_name \in DOMAIN InstalledPackages

\* DistributionDB.find_from_package
FindFromPackage(package_name) == InstalledPackages[package_name]

\* DistributionDB.__done
Done(h, K) == \A d \in K : ~h[d].currently_processed

\* The seeding loops of DistributionDB.__init__: st = [heap, known, err];
\* names is the list of distribution names still to be seeded.
RECURSIVE SeedNames(_, _)
SeedNames(st, names) ==
    IF names = <<>> \/ st.err # NoError THEN st
    ELSE LET made == NewEntry(Head(names), None)
             distribution_obj == Len(st.heap) + 1
             h == Append(st.heap, made.entry)
         IN IF made.err # "none"
            THEN [st EXCEPT !.err = Raise(made.err, "DistributionEntry.__init__")]
            ELSE SeedNames([heap |-> h,
                            known |-> IF ~SetContains(h, st.known, distribution_obj)
                                      THEN SetAdd(h, st.known, distribution_obj)
                                      ELSE st.known,
                            err |-> NoError],
                           Tail(names))

\* the distribution names in the order the seeding loops visit them
RECURSIVE AllOwners(_)
AllOwners(packages) ==
    IF packages = <<>> THEN <<>>
    ELSE InstalledPackages[Head(packages)] \o AllOwners(Tail(packages))

\* The body of the loop over the requirement tuples of one node cur:
\* st = [heap, pending, err]; strings is what is left of the declared list.
RECURSIVE InspectAndLink(_, _, _, _)
InspectAndLink(st, K, cur, strings) ==
    IF strings = <<>> \/ st.err # NoError THEN st
    ELSE LET requirement_tuple == ParseRequirement(Head(strings))
         IN CASE requirement_tuple.kind = "skip" ->
                   InspectAndLink(st, K, cur, Tail(strings))
              [] requirement_tuple.kind = "error" ->
                   [st EXCEPT !.err = Raise("AttributeError", "inspect_requirements")]
              [] OTHER ->
                   LET found == Find(st.heap, K, requirement_tuple.name,
                                     requirement_tuple.version)
                       made == NewEntry(requirement_tuple.name,
                                        requirement_tuple.version)
                       h1 == IF found = NoEntry THEN Append(st.heap, made.entry)
                             ELSE st.heap
                       requirement_object ==
                             IF found = NoEntry THEN Len(st.heap) + 1 ELSE found
                       h2 == [h1 EXCEPT ![cur].requirements =
                                 SetAdd(h1, @, requirement_object)]
                   IN IF found = NoEntry /\ made.err # "none"
                      THEN [st EXCEPT !.err =
                                Raise(made.err, "DistributionEntry.__init__")]
                      ELSE InspectAndLink(
                               [heap |-> h2,
                                pending |-> SetAdd(h2, st.pending, requirement_object),
                                err |-> NoError],
                               K, cur, Tail(strings))

----------------------------------------------------------------------------
(* __main__: the report *)

\* the orders in which iterating a Python set can yield its elements
Orders(S) ==
    {f \in [1..Cardinality(S) -> S] :
        \A i, j \in 1..Cardinality(S) : i # j => f[i] # f[j]}

\* a line of the output file.  kind is "banner", "heading" (# Requirement
\* for ...), "comment" (# \t...), "entry" (an uncommented line) or "unknown"
\* (# Doesn't know package ...); text is what follows the fixed prefix;
\* section is the part of the file; by records the value of
\* import_package_name when the line, or the output_list element it is
\* written from, was produced (None for the banners).
Line(kind, section, text, by) ==
    [kind |-> kind, section |-> section, text |-> text, by |-> by]

\* x in list, for a list of strings
InList(list, x) == \E i \in 1..Len(list) : list[i] = x

\* an insertion that keeps the order of arrival
InsertLast(h, sorted, x) == Append(sorted, x)

\* list.sort() on a list of [entry, by] records: a stable sort that compares
\* the entries with __lt__ only
RECURSIVE InsertSorted(_, _, _)
InsertSorted(h, sorted, x) ==
    IF sorted = <<>> THEN <<x>>
    ELSE IF EntryLt(h[x.entry], h[Head(sorted).entry]) THEN <<x>> \o sorted
    ELSE <<Head(sorted)>> \o InsertSorted(h, Tail(sorted), x)

RECURSIVE SortEntries(_, _)
SortEntries(h, list) ==
    IF list = <<>> THEN <<>>
    ELSE InsertSorted(h, SortEntries(h, SubSeq(list, 1, Len(list) - 1)),
                      list[Len(list)])

\* for r in output_list: file.write(f"{r}\n")
EntryLines(h, section, list) ==
    [i \in 1..Len(list) |->
        Line("entry", section, EntryStr(h[list[i].entry]), list[i].by)]

\* The position of the three nested loops over imports, owners and nodes:
\* the first position from (i, j) on at which find_by_name yields a node.
RECURSIVE NextPosition(_, _)
NextPosition(i, j) ==
    IF i > Len(imports) THEN <<i, 1>>
    ELSE IF ~PackageKnown(imports[i]) THEN NextPosition(i + 1, 1)
    ELSE IF j > Len(FindFromPackage(imports[i])) THEN NextPosition(i + 1, 1)
    ELSE IF FindByName(heap, known, FindFromPackage(imports[i])[j]) = {}
         THEN NextPosition(i, j + 1)
    ELSE <<i, j>>

\* the nodes find_by_name yields at the current position
CurrentNodes == FindByName(heap, known, FindFromPackage(imports[impIdx])[distIdx])

\* the loop of lines 225-229 without the test of line 226
RECURSIVE EmitRequirementsNoDedup(_, _, _)
EmitRequirementsNoDedup(st, order, by) ==
    IF order = <<>> THEN st
    ELSE EmitRequirementsNoDedup(
             [dl |-> Append(st.dl, EntryStr(heap[Head(order)])),
              ol |-> Append(st.ol, [entry |-> Head(order), by |-> by]),
              lines |-> Append(st.lines,
                               Line("comment", "deps", EntryStr(heap[Head(order)]), by))],
             Tail(order), by)

\* The loop over distribution_entry.requirements() in the given order:
\* st = [dl, ol, lines] are distribution_list, output_list and the lines written
RECURSIVE EmitRequirements(_, _, _)
EmitRequirements(st, order, by) ==
    IF order = <<>> THEN st
    ELSE LET requirement == Head(order)
             text == EntryStr(heap[requirement])
         IN IF ~InList(st.dl, text)
            THEN EmitRequirements(
                    [dl |-> Append(st.dl, text),
                     ol |-> Append(st.ol, [entry |-> requirement, by |-> by]),
                     lines |-> Append(st.lines, Line("comment", "deps", text, by))],
                    Tail(order), by)
            ELSE EmitRequirements(st, Tail(order), by)

\* the loop of lines 248-250 with the test of line 249 inverted
RECURSIVE UnknownLinesOfKnown(_)
UnknownLinesOfKnown(i) ==
    IF i > Len(imports) THEN <<>>
    ELSE IF PackageKnown(imports[i])
         THEN <<Line("unknown", "unknown", imports[i], imports[i])>>
                  \o UnknownLinesOfKnown(i + 1)
    ELSE UnknownLinesOfKnown(i + 1)

\* the lines "# Doesn't know package ..." for the imports from index i on
RECURSIVE UnknownLines(_)
UnknownLines(i) ==
    IF i > Len(imports) THEN <<>>
    ELSE IF ~PackageKnown(imports[i])
         THEN <<Line("unknown", "unknown", imports[i], imports[i])>> \o UnknownLines(i + 1)
    ELSE UnknownLines(i + 1)

----------------------------------------------------------------------------
(* Initial states *)

\* the lists of requirement strings one distribution may declare
RequirementLists == UNION {[1..k -> ReqStrings] : k \in 0..MaxReqs}

\* the sublist of list at the positions in keep
RECURSIVE SubList(_, _, _)
SubList(list, keep, i) ==
    IF i > Len(list) THEN <<>>
    ELSE (IF i \in keep THEN <<list[i]>> ELSE <<>>) \o SubList(list, keep, i + 1)

\* get_imports_from_root returns a sorted list without duplicates
ImportLists ==
    {SubList(ImportableNames, keep, 1) : keep \in SUBSET (1..Len(ImportableNames))}

NotParsed == [kind |-> "none", name |-> None, version |-> None]

\* the state before DistributionDB() is constructed
InitProgram ==
    /\ heap = <<>>
    /\ known = {}
    /\ pending = {}
    /\ raised = NoError
    /\ impIdx = 1
    /\ distIdx = 1
    /\ visited = {}
    /\ distribution_list = <<>>
    /\ output_list = <<>>
    /\ out = <<>>
    /\ inspect_calls = <<>>
    /\ finalize_calls = <<>>

Init ==
    /\ requiresOf \in [InstalledNames -> RequirementLists]
    /\ Len(requiresOf[<<"a">>]) + Len(requiresOf[<<"b">>]) <= MaxReqs
    /\ importResult \in ImportResults
    \* the module is imported only when a distribution requires its name
    /\ (\A n \in InstalledNames : \A i \in 1..Len(requiresOf[n]) :
            requiresOf[n][i] # ModuleName)
       => importResult = "ModuleNotFoundError"
    /\ imports \in ImportLists
    /\ InitProgram
    /\ pc = "start"
    /\ reqString = <<>>
    /\ parsed = NotParsed

----------------------------------------------------------------------------
(* DistributionDB.__init__ *)

\* the call counters after one more call on object n (no call when n is no
\* object), extended to the size objects of the heap
CountCall(calls, size, n) ==
    [i \in 1..size |-> (IF i <= Len(calls) THEN calls[i] ELSE 0)
                         + (IF i = n THEN 1 ELSE 0)]

\* lines 147-153: the node set is seeded from the installed-package index
Seed ==
    /\ pc = "start"
    /\ \E st \in {SeedNames([heap |-> <<>>, known |-> {}, err |-> NoError],
                              AllOwners(PackageOrder))} :
          /\ heap' = st.heap
          /\ known' = st.known
          /\ raised' = st.err
          /\ pc' = IF st.err # NoError THEN "raised"
                   ELSE IF Done(st.heap, st.known) THEN "built" ELSE "pass"
          /\ inspect_calls' = [i \in 1..Len(st.heap) |-> 0]
          /\ finalize_calls' = [i \in 1..Len(st.heap) |-> 0]
    /\ pending' = {}
    /\ UNCHANGED <<envVars, reportVars, parseVars>>

\* lines 157-166 for one node of the pass: the set is iterated in any order,
\* and a node that is not finalized has its requirements inspected and linked
ProcessNode(n) ==
    /\ n \in known
    /\ heap[n].currently_processed
    /\ \E st \in {InspectAndLink([heap |-> heap, pending |-> pending, err |-> NoError],
                                known, n, DeclaredRequirements(heap[n]))} :
          /\ pending' = st.pending
          /\ raised' = st.err
          /\ inspect_calls' = CountCall(inspect_calls, Len(st.heap), n)
          /\ IF st.err # NoError
             THEN /\ heap' = st.heap
                  /\ finalize_calls' = CountCall(finalize_calls, Len(st.heap), 0)
                  /\ pc' = "raised"
             ELSE /\ heap' = [st.heap EXCEPT ![n].currently_processed = FALSE]
                  /\ finalize_calls' = CountCall(finalize_calls, Len(st.heap), n)
                  /\ pc' = "pass"
    /\ UNCHANGED <<known, envVars, reportVars, parseVars>>

\* line 167 and the loop test of line 155, once the pass has visited every node
EndPass ==
    /\ pc = "pass"
    /\ \A n \in known : ~heap[n].currently_processed
    /\ known' = SetUpdate(heap, known, pending)
    /\ pending' = {}
    /\ pc' = IF Done(heap, known') THEN "built" ELSE "pass"
    /\ UNCHANGED <<heap, raised, callVars, envVars, reportVars, parseVars>>

----------------------------------------------------------------------------
(* __main__, lines 215-250 *)

\* lines 215-219: the lists are created and the first banner is written
StartReport ==
    /\ pc = "built"
    /\ distribution_list' = <<>>
    /\ output_list' = <<>>
    /\ out' = <<Line("banner", "deps", <<"BEGIN">>, None)>>
    /\ \E pos \in {NextPosition(1, 1)} : impIdx' = pos[1] /\ distIdx' = pos[2]
    /\ visited' = {}
    /\ pc' = "deps"
    /\ UNCHANGED <<envVars, graphVars, callVars, known, parseVars>>

\* the position after distribution_entry has been handled
Advance(distribution_entry) ==
    IF visited \cup {distribution_entry} = CurrentNodes
    THEN /\ \E pos \in {NextPosition(impIdx, distIdx + 1)} :
                impIdx' = pos[1] /\ distIdx' = pos[2]
         /\ visited' = {}
    ELSE /\ visited' = visited \cup {distribution_entry}
         /\ UNCHANGED <<impIdx, distIdx>>

\* lines 223-229 for one node yielded by find_by_name
DepsEntry(distribution_entry, order) ==
    /\ distribution_entry \in CurrentNodes \ visited
    /\ order \in Orders(heap[distribution_entry].requirements)
    /\ \E st \in {EmitRequirements(
                        [dl |-> distribution_list, ol |-> output_list,
                         lines |-> Append(out, Line("heading", "deps",
                                                    EntryStr(heap[distribution_entry]),
                                                    imports[impIdx]))],
                        order, imports[impIdx])} :
          /\ distribution_list' = st.dl
          /\ output_list' = st.ol
          /\ out' = st.lines
    /\ Advance(distribution_entry)
    /\ UNCHANGED <<pc, envVars, graphVars, callVars, known, parseVars>>

\* lines 230-236: the dependencies are sorted and written, the list is cleared
DepsEnd ==
    /\ pc = "deps"
    /\ impIdx > Len(imports)
    /\ out' = out \o EntryLines(heap, "deps", SortEntries(heap, output_list))
                  \o <<Line("banner", "deps", <<"END">>, None),
                       Line("banner", "required", <<"BEGIN">>, None)>>
    /\ output_list' = <<>>
    /\ pc' = "required"
    /\ UNCHANGED <<impIdx, distIdx, visited, distribution_list, envVars, graphVars, callVars, known, parseVars>>

\* The orders in which the loops of lines 237-240 can visit the nodes, from
\* position (i, j) on: the imports and their owners in list order, the nodes
\* find_by_name yields in any order.  A visit is [entry, by].
RECURSIVE VisitPlans(_, _)
VisitPlans(i, j) ==
    LET pos == NextPosition(i, j)
    IN IF pos[1] > Len(imports) THEN {<<>>}
       ELSE LET nodes == FindByName(heap, known,
                                    FindFromPackage(imports[pos[1]])[pos[2]])
            IN {[k \in 1..Len(o) |-> [entry |-> o[k], by |-> imports[pos[1]]]]
                    \o rest :
                  o \in Orders(nodes), rest \in VisitPlans(pos[1], pos[2] + 1)}

\* lines 241-243 without the test of line 241
RECURSIVE CollectRequiredNoDedup(_, _)
CollectRequiredNoDedup(st, plan) ==
    IF plan = <<>> THEN st
    ELSE CollectRequiredNoDedup(
             [dl |-> Append(st.dl, EntryStr(heap[Head(plan).entry])),
              ol |-> Append(st.ol, Head(plan))],
             Tail(plan))

\* lines 241-243 for the visits of plan: st = [dl, ol] are distribution_list
\* and output_list
RECURSIVE CollectRequired(_, _)
CollectRequired(st, plan) ==
    IF plan = <<>> THEN st
    ELSE LET text == EntryStr(heap[Head(plan).entry])
         IN IF ~InList(st.dl, text)
            THEN CollectRequired([dl |-> Append(st.dl, text),
                                  ol |-> Append(st.ol, Head(plan))],
                                 Tail(plan))
            ELSE CollectRequired(st, Tail(plan))

\* lines 237-250: the required packages are collected, sorted and written,
\* then the imports the index does not know
WriteRequired(plan) ==
    /\ plan \in VisitPlans(1, 1)
    /\ \E st \in {CollectRequired([dl |-> distribution_list, ol |-> output_list],
                                    plan)} :
          /\ distribution_list' = st.dl
          /\ output_list' = SortEntries(heap, st.ol)
          /\ out' = out \o EntryLines(heap, "required", output_list')
                        \o <<Line("banner", "required", <<"END">>, None)>>
                        \o UnknownLines(1)
    /\ pc' = "done"
    /\ UNCHANGED <<impIdx, distIdx, visited, envVars, graphVars, callVars, known, parseVars>>

Next ==
    \/ Seed
    \/ pc = "pass" /\ \E n \in known : ProcessNode(n)
    \/ EndPass
    \/ StartReport
    \/ /\ pc = "deps"
       /\ impIdx <= Len(imports)
       /\ \E e \in CurrentNodes \ visited :
             \E order \in Orders(heap[e].requirements) : DepsEntry(e, order)
    \/ DepsEnd
    \/ pc = "required" /\ \E plan \in VisitPlans(1, 1) : WriteRequired(plan)

Spec == Init /\ [][Next]_vars

----------------------------------------------------------------------------
(* Parsing of every declared requirement string up to MaxStrLen characters *)

InitParse ==
    /\ requiresOf = [n \in InstalledNames |-> <<>>]
    /\ importResult = "ModuleNotFoundError"
    /\ imports = <<>>
    /\ InitProgram
    /\ pc = "parse"
    /\ reqString \in StringsUpTo(ParseAlphabet, MaxStrLen)
    /\ parsed = NotParsed

\* lines 55-59 of inspect_requirements for the declared string reqString
Parse ==
    /\ pc = "parse"
    /\ parsed' = ParseRequirement(reqString)
    /\ pc' = "parsed"
    /\ UNCHANGED <<reqString, envVars, graphVars, callVars, known, reportVars>>

NextParse == Parse

ParseSpec == InitParse /\ [][NextParse]_vars

----------------------------------------------------------------------------
(* Properties *)

\* DistributionDB() has returned: the loop of line 155 has ended
Constructed == pc \in {"built", "deps", "required", "done"}

\* the objects reachable from the nodes in from through requirements edges
RECURSIVE ReachableFrom(_, _)
ReachableFrom(h, from) ==
    LET more == from \cup UNION {h[n].requirements : n \in from}
    IN IF more = from THEN from ELSE ReachableFrom(h, more)

\* C1: for every installed-package index and requirement relation, cyclic
\* ones included, the construction of DistributionDB terminates: the loop
\* eventually reaches a pass after which every node of the set is finalized.
\* Stated on finite runs: DistributionDB.__init__ never stops running
\* anywhere but after such a pass.
C1_ConstructionReachesFixedPoint ==
    pc \notin {"start", "pass"} => (Constructed /\ Done(heap, known))

\* C2: once construction has finished, every requirement edge target of
\* every node has a node with the same (name, version) in the node set.
C2_Closure ==
    Constructed =>
        \A n \in known : \A r \in heap[n].requirements :
            \E m \in known : /\ heap[m].name = heap[r].name
                             /\ heap[m].version = heap[r].version

\* C2 witness: construction has finished with a node whose requirement was
\* discovered during construction, and with a cycle a -> b -> a
C2_Witness ==
    /\ Constructed
    /\ \E n \in known : \E r \in heap[n].requirements : heap[r].version_provided
    /\ \E n, m \in known :
          /\ n # m
          /\ \E r \in heap[n].requirements : heap[r].name = heap[m].name
          /\ \E r \in heap[m].requirements : heap[r].name = heap[n].name

\* C3: after construction every DistributionEntry object reachable through
\* requirements edges from a node of the set is itself a member object of
\* the set and is finalized.
C3_ReachableObjectsAreFinalizedMembers ==
    Constructed =>
        \A r \in ReachableFrom(heap, known) :
            r \in known /\ ~heap[r].currently_processed

\* the positions of the lines of one kind in one section of the output
LinesOf(kind, section) ==
    {i \in 1..Len(out) : out[i].kind = kind /\ out[i].section = section}

\* the uncommented lines of a section that carry the given text
EntryLinesWith(section, text) ==
    {i \in LinesOf("entry", section) : out[i].text = text}

\* the imported module names
Imported == {imports[i] : i \in 1..Len(imports)}

\* the graph nodes of the distributions that own an imported known module
OwnedNodes ==
    {e \in known :
        \E m \in Imported :
            /\ PackageKnown(m)
            /\ \E j \in 1..Len(FindFromPackage(m)) :
                  heap[e].name = FindFromPackage(m)[j]}

\* C4 as claimed: the "Required packages" section holds the rendered string
\* of every node owning an imported known module on exactly one line, and
\* nothing else.
C4_RequiredSectionComplete ==
    pc = "done" =>
        /\ \A e \in OwnedNodes :
              Cardinality(EntryLinesWith("required", EntryStr(heap[e]))) = 1
        /\ \A i \in LinesOf("entry", "required") :
              \E e \in OwnedNodes : out[i].text = EntryStr(heap[e])

\* C4 as amended: the rendered string of a node owning an imported known
\* module is on exactly one line of the "Required packages" section, unless
\* the Dependencies section already has it on a line, and then on none; the
\* section holds nothing else.
C4_RequiredSectionMinusDependencies ==
    pc = "done" =>
        /\ \A e \in OwnedNodes :
              Cardinality(EntryLinesWith("required", EntryStr(heap[e]))) =
                 IF EntryLinesWith("deps", EntryStr(heap[e])) = {} THEN 1 ELSE 0
        /\ \A i \in LinesOf("entry", "required") :
              \E e \in OwnedNodes : out[i].text = EntryStr(heap[e])

\* C4 witness: the report is written, one owning node is on a line of the
\* "Required packages" section and another one is left out of it because
\* it was written as a dependency
C4_Witness ==
    /\ pc = "done"
    /\ \E e \in OwnedNodes : EntryLinesWith("required", EntryStr(heap[e])) # {}
    /\ \E e \in OwnedNodes : EntryLinesWith("deps", EntryStr(heap[e])) # {}

\* a string made of name characters only
IsWord(s) == s # <<>> /\ \A i \in 1..Len(s) : s[i] = "a"

\* C5: a declared string "<name> (<version-spec>); <marker>" yields the
\* pair (name, version-spec), and "<name>" alone yields (name, None).
C5_ParsesNameAndVersion ==
    pc = "parsed" =>
        /\ IsWord(reqString) =>
              parsed = [kind |-> "yield", name |-> reqString, version |-> None]
        /\ \A i, j \in 1..Len(reqString) :
              ( /\ j >= i + 3
                /\ j + 2 <= Len(reqString)
                /\ IsWord(SubSeq(reqString, 1, i))
                /\ reqString[i + 1] = " "
                /\ reqString[i + 2] = "("
                /\ IsWord(SubSeq(reqString, i + 3, j))
                /\ reqString[j + 1] = ")"
                /\ reqString[j + 2] = ";" )
              => parsed = [kind |-> "yield",
                           name |-> SubSeq(reqString, 1, i),
                           version |-> SubSeq(reqString, i + 3, j)]

\* C6: no declared requirement string, malformed ones included, makes
\* inspect_requirements raise: an unparseable string is skipped.
C6_MalformedStringsAreSkipped ==
    pc = "parsed" => parsed.kind \in {"skip", "yield"}

\* C7: in every state the node set holds no two distinct nodes that are
\* equal under DistributionEntry.__eq__.
C7_NoEqualNodes ==
    \A d, e \in known : d # e => ~EntryEq(heap[d], heap[e])

\* C8: constructing a DistributionEntry without a version never fails: when
\* both version lookups fail, whatever the reason, the entry has the empty
\* version and version_detected false, and nothing is raised.
C8_ConstructorNeverFails ==
    /\ raised.from # "DistributionEntry.__init__"
    /\ \A i \in 1..Len(heap) :
          ( /\ ~heap[i].version_provided
            /\ ~Installed(heap[i].name)
            /\ ImportOf(heap[i].name) # "version" )
          => heap[i].version = <<>> /\ ~heap[i].version_detected

\* C9: every imported module the index does not know has exactly one
\* "# Doesn't know package" line and causes no other line; a module of
\* the index has no such line.
C9_UnknownModules ==
    /\ \A i \in 1..Len(out) :
          /\ out[i].kind = "unknown" =>
                out[i].text \in Imported /\ ~PackageKnown(out[i].text)
          /\ (out[i].by \in Imported /\ ~PackageKnown(out[i].by)) =>
                out[i].kind = "unknown" /\ out[i].text = out[i].by
    /\ pc = "done" =>
          \A m \in Imported :
              ~PackageKnown(m) =>
                  Cardinality({i \in 1..Len(out) :
                                  out[i].kind = "unknown" /\ out[i].text = m}) = 1

\* C9 witness: the report is written for imports of which one is unknown
\* and another one has produced a heading
C9_Witness ==
    /\ pc = "done"
    /\ \E m \in Imported : ~PackageKnown(m)
    /\ \E i \in 1..Len(out) : out[i].kind = "heading"

\* C10: an entry renders as name followed by version when the version was
\* provided, else as name, " =" and version when it was detected, else as
\* the bare name; exactly one of the three cases applies.
C10_Rendering ==
    \A i \in 1..Len(heap) :
        LET e == heap[i]
            bare == ~e.version_provided /\ ~e.version_detected
        IN /\ e.version_provided => EntryStr(e) = e.name \o e.version
           /\ e.version_detected =>
                 EntryStr(e) = e.name \o <<" ", "=">> \o e.version
           /\ bare => EntryStr(e) = e.name
           /\ Cardinality({c \in {"provided", "detected", "bare"} :
                  \/ c = "provided" /\ e.version_provided
                  \/ c = "detected" /\ e.version_detected
                  \/ c = "bare" /\ bare}) = 1

\* C10 witness: entries of the three kinds have been constructed, and the
\* rendering of each kind has been written to the output
C10_Witness ==
    /\ \E i \in 1..Len(out) : \E e \in 1..Len(heap) :
          heap[e].version_provided /\ out[i].text = EntryStr(heap[e])
    /\ \E i \in 1..Len(out) : \E e \in 1..Len(heap) :
          heap[e].version_detected /\ out[i].text = EntryStr(heap[e])
    /\ \E i \in 1..Len(out) : \E e \in 1..Len(heap) :
          /\ ~heap[e].version_provided /\ ~heap[e].version_detected
          /\ out[i].kind = "entry" /\ out[i].text = EntryStr(heap[e])

\* the documented order: by lowercased name, then by version string
LexLess(a, b) ==
    \/ StrLess(Lower(a.name), Lower(b.name))
    \/ Lower(a.name) = Lower(b.name) /\ StrLess(a.version, b.version)

\* C11: for the entries a, b, c constructed: equal lowercased names and equal
\* versions make a == b; exactly one of a < b, a == b, a > b holds; < is
\* transitive and is the order by lowercased name, then version; a <= b iff
\* a < b or a == b, and a >= b iff a > b or a == b.
C11_OrderingConsistent ==
    \A i, j \in 1..Len(heap) :
        LET a == heap[i]
            b == heap[j]
        IN /\ (Lower(a.name) = Lower(b.name) /\ a.version = b.version)
                 => EntryEq(a, b)
           /\ Cardinality({r \in {"lt", "eq", "gt"} :
                  \/ r = "lt" /\ EntryLt(a, b)
                  \/ r = "eq" /\ EntryEq(a, b)
                  \/ r = "gt" /\ EntryGt(a, b)}) = 1
           /\ EntryLt(a, b) <=> LexLess(a, b)
           /\ \A k \in 1..Len(heap) :
                  (EntryLt(a, b) /\ EntryLt(b, heap[k])) => EntryLt(a, heap[k])
           /\ EntryGe(a, b) <=> (EntryGt(a, b) \/ EntryEq(a, b))
           /\ EntryLe(a, b) <=> (EntryLt(a, b) \/ EntryEq(a, b))

\* the positions of the uncommented lines of both sections
AllEntryLines == {i \in 1..Len(out) : out[i].kind = "entry"}

\* C12: no rendered string is on more than one uncommented line of the two
\* sections together, and once the Dependencies section is written the
\* rendered string of every direct requirement of a matched node is on
\* exactly one uncommented line of it.
C12_DedupByRenderedString ==
    /\ \A i, j \in AllEntryLines : i # j => out[i].text # out[j].text
    /\ pc \in {"required", "done"} =>
          \A e \in OwnedNodes : \A r \in heap[e].requirements :
              Cardinality(EntryLinesWith("deps", EntryStr(heap[r]))) = 1

\* C12 witness: the report is written, two matched nodes have distinct
\* requirement objects that render alike, and the "Required packages"
\* section has a line
C12_Witness ==
    /\ pc = "done"
    /\ \E e1, e2 \in OwnedNodes :
          /\ e1 # e2
          /\ \E r1 \in heap[e1].requirements : \E r2 \in heap[e2].requirements :
                r1 # r2 /\ EntryStr(heap[r1]) = EntryStr(heap[r2])
    /\ LinesOf("entry", "required") # {}

\* two objects with identical name and identical version
SameNameAndVersion(a, b) == a.name = b.name /\ a.version = b.version

\* C13: inserting two entries with identical name and identical version
\* into a set leaves one element; so neither the node set nor the pending
\* batch ever holds two such objects.
C13_IdempotentDedup ==
    /\ \A i, j \in 1..Len(heap) :
          SameNameAndVersion(heap[i], heap[j]) =>
              Cardinality(SetAdd(heap, SetAdd(heap, {}, i), j)) = 1
    /\ \A i, j \in known : SameNameAndVersion(heap[i], heap[j]) => i = j
    /\ \A i, j \in pending : SameNameAndVersion(heap[i], heap[j]) => i = j

\* C13 witness: construction has finished, and an object with the name and
\* version of a node of the set was constructed and is not in the set
C13_Witness ==
    /\ Constructed
    /\ \E i \in known : \E j \in (1..Len(heap)) \ known :
          SameNameAndVersion(heap[i], heap[j])

\* C14: every node of the set has inspect_requirements called on it exactly
\* once and is finalized exactly once by the time DistributionDB.__init__
\* is left; no object is inspected or finalized twice, and an object is
\* finalized exactly when finalize was called on it.
C14_InspectedAndFinalizedOnce ==
    /\ \A n \in 1..Len(heap) :
          /\ inspect_calls[n] <= 1
          /\ finalize_calls[n] <= 1
          /\ ~heap[n].currently_processed <=> finalize_calls[n] = 1
    /\ pc \notin {"start", "pass"} =>
          \A n \in known : inspect_calls[n] = 1 /\ finalize_calls[n] = 1

\* C15: no step removes a node from the node set or an element from a
\* requirement set, and once construction has finished no step changes
\* the node set or a requirement set.
C15_NodeSetGrowsThenFrozen ==
    [][ /\ known \subseteq known'
        /\ Len(heap) <= Len(heap')
        /\ \A i \in 1..Len(heap) :
              heap[i].requirements \subseteq heap'[i].requirements
        /\ Constructed =>
              /\ known' = known
              /\ \A i \in 1..Len(heap) :
                    heap'[i].requirements = heap[i].requirements ]_vars

\* C15 witness: the report is written from a node set that grew during the
\* passes, after find_by_name and requirements() were used on it
C15_Witness ==
    /\ pc = "done"
    /\ \E n \in known : heap[n].version_provided
    /\ \E i \in 1..Len(out) : out[i].kind = "heading"
    /\ \E i \in 1..Len(out) : out[i].kind = "comment"

\* the distribution of entry e is not installed, or declares no requirements
NothingDeclared(e) == ~Installed(e.name) \/ requiresOf[Lower(e.name)] = <<>>

\* C16: the step that inspects a node whose distribution is not installed
\* or declares nothing raises nothing, finalizes the node, constructs no
\* object and leaves the pending batch as it is; such a node never has a
\* requirement edge.
C16_NothingDeclaredNothingLinked ==
    [][ \A n \in known :
          NothingDeclared(heap[n]) =>
              /\ heap'[n].requirements = {}
              /\ (pc = "pass" /\ inspect_calls'[n] = inspect_calls[n] + 1) =>
                    /\ raised' = NoError
                    /\ pc' = "pass"
                    /\ ~heap'[n].currently_processed
                    /\ pending' = pending
                    /\ Len(heap') = Len(heap) ]_vars

\* C16 witness: a node whose distribution is not installed and a node whose
\* distribution declares nothing have both been inspected and finalized
C16_Witness ==
    /\ \E n \in known :
          /\ ~Installed(heap[n].name)
          /\ inspect_calls[n] = 1 /\ ~heap[n].currently_processed
    /\ \E n \in known :
          /\ Installed(heap[n].name) /\ requiresOf[Lower(heap[n].name)] = <<>>
          /\ inspect_calls[n] = 1 /\ ~heap[n].currently_processed

\* lines are the rendered entries of list, rearranged so that no entry is
\* followed by a smaller one
WrittenSorted(lines, list) ==
    /\ Len(lines) = Len(list)
    /\ \E perm \in Orders(1..Len(list)) :
          /\ \A k \in 1..Len(list) :
                /\ lines[k].kind = "entry"
                /\ lines[k].text = EntryStr(heap[list[perm[k]].entry])
          /\ \A k, l \in 1..Len(list) :
                k < l => ~LexLess(heap[list[perm[l]].entry],
                                  heap[list[perm[k]].entry])

\* C17: the step that writes the uncommented lines of the Dependencies
\* section, and the step that writes those of the "Required packages"
\* section, write the collected entries in non-decreasing order of
\* lowercased name, then version, whatever order they were collected in.
C17_SectionsSorted ==
    [][ /\ (pc = "deps" /\ pc' = "required") =>
              /\ WrittenSorted(SubSeq(out', Len(out) + 1,
                                       Len(out) + Len(output_list)),
                                output_list)
              /\ out'[Len(out) + Len(output_list) + 1].kind = "banner"
        /\ (pc = "required" /\ pc' = "done") =>
              /\ WrittenSorted(SubSeq(out', Len(out) + 1,
                                       Len(out) + Len(output_list')),
                                output_list')
              /\ out'[Len(out) + Len(output_list') + 1].kind = "banner" ]_vars

\* C17 witness: the report is written; the nodes b and a were collected in
\* this order for the module both own, and a is written before b; the
\* Dependencies section has two uncommented lines
C17_Witness ==
    /\ pc = "done"
    /\ \E i, j \in LinesOf("entry", "required") :
          /\ i < j
          /\ out[i].by = <<"m">> /\ out[i].text = <<"a", " ", "=", "1">>
          /\ out[j].by = <<"m">> /\ out[j].text = <<"b", " ", "=", "2">>
    /\ Cardinality(LinesOf("entry", "deps")) >= 2

\* the distribution names the installed-package index lists as owners
OwnerNames ==
    UNION {{InstalledPackages[m][j] : j \in 1..Len(InstalledPackages[m])} :
              m \in DOMAIN InstalledPackages}

\* C18: after construction find_by_name returns, for every owner name of
\* the index, at least one node and only nodes of exactly that name; so
\* once the Dependencies section is written every imported known module
\* has a "Requirement for" heading.
C18_OwnersHaveNodes ==
    /\ Constructed =>
          \A name \in OwnerNames :
              /\ FindByName(heap, known, name) # {}
              /\ \A d \in FindByName(heap, known, name) : heap[d].name = name
    /\ pc \in {"required", "done"} =>
          \A m \in Imported :
              PackageKnown(m) =>
                  \E i \in LinesOf("heading", "deps") : out[i].by = m

\* C18 witness: the report is written for an import owned by two
\* distributions, with a node in the set whose name differs from an
\* owner's name in case only
C18_Witness ==
    /\ pc = "done"
    /\ <<"m">> \in Imported
    /\ \E n \in known : heap[n].name = <<"A">>
    /\ Cardinality(LinesOf("heading", "deps")) >= 2

============================================================================
